---- MODULE Spec2Model ----
(***************************************************************************)
(* Model of fuel_cell_3D.py, a Streamlit page.  Streamlit runs the whole   *)
(* script top to bottom when the page is loaded, when a slider is moved    *)
(* and when the user asks for a rerun; every such run is one action.       *)
(*                                                                         *)
(* Numbers are exact rationals kept as integer numerators:                 *)
(*   H2, O2, Pressure       tenths          (slider step 0.1)              *)
(*   Voltage                hundredths      (slider step 0.01)             *)
(*   Temperature, speed     integers                                       *)
(*   rate                   numerator over RATE_DEN                        *)
(*   current_density        numerator over CD_DEN                          *)
(*   power                  <<hi, lo>> = hi/100 + lo/(100*LIMB)            *)
(*   phases                 numerators over PHASE_DEN (inputs) and over    *)
(*                          PH_DEN = PHASE_DEN * ES_DEN (wrapped products) *)
(*   box coordinates        tenths;  oxygen coordinates  thousandths       *)
(* The script computes in IEEE doubles; the model computes the same        *)
(* expressions without rounding error.  Products that would exceed 32 bits *)
(* are split into two limbs.                                               *)
(***************************************************************************)
EXTENDS Integers, Sequences, FiniteSets, TLC

VARIABLES
    ran,              \* the script has run at least once
    H2, O2, Temperature, Voltage, Pressure, speed,   \* slider values
    rate, current_density, power,                    \* readouts (lines 32-35)
    anode, membrane, cathode,                        \* create_box results
    fig,              \* traces of the first figure, in add_trace order
    seed,             \* line 137
    t_shift,          \* line 141, numerator over PHASE_DEN
    electron_speed,   \* line 140, numerator over ES_DEN
    t_in,             \* t_vals of the last electron_positions call (over PHASE_DEN)
    sf_in,            \* speed_factor of the last electron_positions call (over ES_DEN)
    ph,               \* ph inside the last electron_positions call (over PH_DEN)
    ex,               \* wire sample indices returned by the last electron_positions call
    pt,               \* first argument of the last np.interp call (over PHASE_DEN)
    px, pz,           \* proton coordinates of the last np.interp calls
    chart,            \* traces shown in the chart element of column 1
    exception         \* "none", or the exception that ended the script

vars == <<ran, H2, O2, Temperature, Voltage, Pressure, speed, rate,
          current_density, power, anode, membrane, cathode, fig, seed, t_shift,
          electron_speed, t_in, sf_in, ph, ex, pt, px, pz, chart, exception>>

controls == <<H2, O2, Temperature, Voltage, Pressure, speed>>

(***************************** model bounds ********************************)
\* sampled positions per slider (lowest, highest, evenly spread between),
\* to which each slider's default is added
SliderLevels == 2
\* rng.rand() is sampled on the grid {0, 1/RandRes, ..., (RandRes-1)/RandRes}
RandRes == 4
\* distinct states the unseeded global numpy generator may be in at a run's start
GlobalStates == 2

(***************************** sliders, lines 20-25 ************************)
H2_MIN == 1
H2_MAX == 20
H2_DEFAULT == 10
O2_MIN == 1
O2_MAX == 20
O2_DEFAULT == 10
T_MIN == 20
T_MAX == 120
T_DEFAULT == 60
V_MIN == 50
V_MAX == 120
V_DEFAULT == 80
P_MIN == 5
P_MAX == 30
P_DEFAULT == 10
SPEED_MIN == 1
SPEED_MAX == 10
SPEED_DEFAULT == 4

Max(a, b) == IF a >= b THEN a ELSE b

Levels(lo, hi, dflt) ==
    {lo + (i * (hi - lo)) \div (SliderLevels - 1) : i \in 0..(SliderLevels - 1)}
        \cup {dflt}

H2Values == Levels(H2_MIN, H2_MAX, H2_DEFAULT)
O2Values == Levels(O2_MIN, O2_MAX, O2_DEFAULT)
TemperatureValues == Levels(T_MIN, T_MAX, T_DEFAULT)
VoltageValues == Levels(V_MIN, V_MAX, V_DEFAULT)
PressureValues == Levels(P_MIN, P_MAX, P_DEFAULT)
SpeedValues == Levels(SPEED_MIN, SPEED_MAX, SPEED_DEFAULT)

(***************************** physics proxy, lines 32-35 ******************)
\* (H2*0.6 + O2*0.4) = (6h+4o)/100, (1 + (T-25)/300) = (300+T-25)/300,
\* Pressure = p/10
RATE_DEN == 100 * 300 * 10

\* line 32 with the oxygen term subtracted
ReactionRate_O2Sign(h, o, T, p) == (6 * h - 4 * o) * (300 + (T - 25)) * p

\* line 32 with the hydrogen term subtracted
ReactionRate_H2Sign(h, o, T, p) == (4 * o - 6 * h) * (300 + (T - 25)) * p

\* line 32 with the temperature term divided by 30
ReactionRate_TempScale(h, o, T, p) == (6 * h + 4 * o) * (30 + (T - 25)) * p * 10

\* line 32
ReactionRate(h, o, T, p) == (6 * h + 4 * o) * (300 + (T - 25)) * p

\* rate * (Voltage / 1.0) * 0.5 = rateN * v / (RATE_DEN * 100 * 2)
CD_DEN == RATE_DEN * 100 * 2
\* the literal 0.01 of line 34 over CD_DEN
CD_FLOOR == CD_DEN \div 100

\* line 34 with a floor of 0.1
CurrentDensity_Floor(r, v) == Max(CD_DEN \div 10, r * v)

\* line 34
CurrentDensity(r, v) == Max(CD_FLOOR, r * v)

\* current_density * Voltage * 50 = cdN * v / (CD_DEN * 2) = cdN * v / (100 * LIMB)
LIMB == CD_DEN \div 50

\* line 35; the product cdN * v is kept as <<hi, lo>> with cdN * v = hi*LIMB + lo
Power(cd, v) ==
    LET cH == cd \div LIMB
        cL == cd % LIMB
    IN  <<cH * v + (cL * v) \div LIMB, (cL * v) % LIMB>>

(***************************** create_box, lines 38-46 *********************)
\* lines 40-42 with the y and z lists exchanged
create_box_yz(x0, x1, y0, y1, z0, z1, color) ==
    [x |-> <<x0, x1, x1, x0, x0, x1, x1, x0>>,
     y |-> <<z0, z0, z0, z0, z1, z1, z1, z1>>,
     z |-> <<y0, y0, y1, y1, y0, y0, y1, y1>>,
     i |-> <<0, 0, 0, 4, 4, 4, 1, 2, 5, 6, 1, 5>>,
     j |-> <<1, 2, 3, 5, 6, 7, 5, 6, 6, 7, 4, 2>>,
     k |-> <<2, 3, 0, 6, 7, 4, 2, 3, 7, 4, 5, 6>>,
     color |-> color, opacity |-> 9]

\* vertex and face lists exactly as written; i, j, k are 0-based vertex numbers
create_box(x0, x1, y0, y1, z0, z1, color) ==
    [x |-> <<x0, x1, x1, x0, x0, x1, x1, x0>>,
     y |-> <<y0, y0, y1, y1, y0, y0, y1, y1>>,
     z |-> <<z0, z0, z0, z0, z1, z1, z1, z1>>,
     i |-> <<0, 0, 0, 4, 4, 4, 1, 2, 5, 6, 1, 5>>,
     j |-> <<1, 2, 3, 5, 6, 7, 5, 6, 6, 7, 4, 2>>,
     k |-> <<2, 3, 0, 6, 7, 4, 2, 3, 7, 4, 5, 6>>,
     color |-> color, opacity |-> 9]

\* lines 49-51
AnodeBox == create_box(-20, -5, -8, 8, -5, 5, "lightskyblue")
MembraneBox == create_box(-4, 4, -9, 9, -5, 5, "white")
CathodeBox == create_box(5, 20, -8, 8, -5, 5, "lightcoral")

(***************************** static geometry ******************************)
\* line 66: np.linspace(-pi/2, pi/2, 40).  Wire sample number w (0-based) is the
\* point (1.2 cos th_w, 0.64 sin th_w, 0.9), th_w = -pi/2 + w*pi/39; the 40
\* points are pairwise distinct, so a wire point is modelled by its number w.
WIRE_N == 40
\* line 84: samples of the proton channel
CHANNEL_N == 40
\* line 74
n_particles == 12
\* lines 98-100: size of each np.random.normal draw
OX_N == 10

Particles == 1..n_particles

\* common denominator of t (multiples of 1/12) and t_shift (multiples of
\* 1/(2*RandRes)): phases fed to electron_positions and np.interp
PHASE_DEN == n_particles * 2 * RandRes

\* line 75: np.linspace(0, 1, n_particles, endpoint=False)
t == [n \in Particles |-> (n - 1) * (PHASE_DEN \div n_particles)]

\* 1 + rate/4.0 = (4*RATE_DEN + rateN) / (4*RATE_DEN)
ES_DEN == 4 * RATE_DEN
\* denominator of a wrapped product phase * speed_factor
PH_DEN == PHASE_DEN * ES_DEN

\* line 140: max(1.0, speed * (1 + rate/4.0)), over ES_DEN
ElectronSpeed(s, r) == Max(ES_DEN, s * (ES_DEN + r))

\* line 79: ph = (t_vals * speed_factor) % 1.0, over PH_DEN.  The product
\* x * sf = hi * ES_DEN + lo is formed in two limbs; % 1.0 drops its integer part.
electron_phase(t_vals, speed_factor) ==
    [n \in Particles |->
        LET x == t_vals[n]
            q == speed_factor \div ES_DEN
            r == speed_factor % ES_DEN
            hi == x * q + (x * r) \div ES_DEN
            lo == (x * r) % ES_DEN
        IN  (hi % PHASE_DEN) * ES_DEN + lo]

\* line 80 scaling by len(wire_x)
electron_index_len(phv) ==
    [n \in Particles |->
        LET a == phv[n] \div ES_DEN
            b == phv[n] % ES_DEN
        IN  (WIRE_N * a + (WIRE_N * b) \div ES_DEN) \div PHASE_DEN]

\* line 80: idx = (ph * (len(wire_x)-1)).astype(int): truncation of a value >= 0
electron_index(phv) ==
    [n \in Particles |->
        LET a == phv[n] \div ES_DEN
            b == phv[n] % ES_DEN
        IN  ((WIRE_N - 1) * a + ((WIRE_N - 1) * b) \div ES_DEN) \div PHASE_DEN]

\* lines 77-81: the wire points (by sample number) of the 12 electrons
electron_positions(t_vals, speed_factor) ==
    electron_index(electron_phase(t_vals, speed_factor))

\* denominator of an interpolated channel coordinate
INTERP_DEN == 10 * (CHANNEL_N - 1) * PHASE_DEN

\* np.interp(x, np.linspace(0,1,40), np.linspace(f0/10, f1/10, 40)) for one
\* x = xn/PHASE_DEN in [0,1): the segment k with xp[k] <= x, then
\* fp[k] + (x - xp[k]) * (fp[k+1] - fp[k]) / (xp[k+1] - xp[k]), over INTERP_DEN
interp1(xn, f0, f1) ==
    LET k == (xn * (CHANNEL_N - 1)) \div PHASE_DEN
        fpk == f0 * (CHANNEL_N - 1) + (f1 - f0) * k
    IN  fpk * PHASE_DEN + ((CHANNEL_N - 1) * xn - k * PHASE_DEN) * (f1 - f0)

\* lines 92-94 and 154-156 over the 12 phases; proton_x runs -0.4..0.4,
\* proton_y is all zeros, proton_z runs -0.3..0.3
interp(xs, f0, f1) == [n \in Particles |-> interp1(xs[n], f0, f1)]

(***************************** random sources ******************************)
\* line 137: int((H2+O2+Temperature+Voltage+Pressure) * 1000) % 2**31.  The sum
\* times 1000 is an integer below 2**31 on the whole slider grid, so int() and
\* the reduction leave it unchanged.
Seed(h, o, T, v, p) == 100 * h + 100 * o + 1000 * T + 10 * v + 100 * p

\* lines 138, 141: the first rand() of np.random.RandomState(seed): a fixed
\* function of the seed with values in [0,1).  MT19937 itself is not modelled;
\* the value is k/RandRes for a k that a fixed mixing of the seed selects.
RandomState_rand(sd) == ((sd \div 10) * 31 + sd \div 1000) % RandRes

\* line 141: rng.rand() * 0.5, over PHASE_DEN
TShift(sd) == RandomState_rand(sd) * (PHASE_DEN \div (2 * RandRes))

\* lines 98-100: np.random.normal(mu, sigma, 10) on the global generator, which
\* nothing in the script seeds; g is the state it happens to be in.  Values in
\* thousandths, each deviate one of -sigma, 0, +sigma.
normal(mu, sigma, g) ==
    [n \in 1..OX_N |-> mu + sigma * (((g + n) % 3) - 1)]

(***************************** traces **************************************)
NoName == "<None>"

Mesh3d(box, name) ==
    [type |-> "Mesh3d", name |-> name, mode |-> "", data |-> box,
     marker |-> [size |-> 0, color |-> box.color]]

Scatter3d(data, mode, name, size, color) ==
    [type |-> "Scatter3d", name |-> name, mode |-> mode, data |-> data,
     marker |-> [size |-> size, color |-> color]]

\* lines 53-101: the ten add_trace calls, in order
FirstFigure(s, g) ==
    << Mesh3d(AnodeBox, "Anode"),
       Mesh3d(MembraneBox, "Membrane (Electrolyte)"),
       Mesh3d(CathodeBox, "Cathode"),
       Scatter3d([x |-> <<-1250>>, y |-> <<0>>, z |-> <<700>>, text |-> "Anode"],
                 "text", NoName, 0, ""),
       Scatter3d([x |-> <<0>>, y |-> <<0>>, z |-> <<700>>, text |-> "Electrolyte"],
                 "text", NoName, 0, ""),
       Scatter3d([x |-> <<1250>>, y |-> <<0>>, z |-> <<700>>, text |-> "Cathode"],
                 "text", NoName, 0, ""),
       Scatter3d([wire |-> [w \in 1..WIRE_N |-> w - 1]],
                 "lines", "External wire", 6, "gold"),
       Scatter3d([wire |-> electron_positions(t, s * ES_DEN)],
                 "markers", "Electrons", 4, "blue"),
       Scatter3d([x |-> interp(t, -4, 4), y |-> [n \in Particles |-> 0],
                  z |-> interp(t, -3, 3)],
                 "markers", "Protons (H+)", 4, "red"),
       Scatter3d([x |-> normal(1400, 80, g), y |-> normal(0, 300, g + 1),
                  z |-> normal(200, 50, g + 2)],
                 "markers", "Oxygen (O2)", 5, "green") >>

\* line 145: fig.data is plotly's BaseFigure.data property, which returns the
\* figure's traces as a tuple; slicing a tuple with [:] gives a tuple
FigureData(f) == [kind |-> "tuple", items |-> f]

\* line 148
names(fig2) == [n \in 1..Len(fig2.items) |-> fig2.items[n].name]

\* lines 149-151: list.index, the first position holding the name (1-based here)
index(nm, name) ==
    CHOOSE n \in 1..Len(nm) : nm[n] = name /\ \A m \in 1..(n - 1) : nm[m] # name

\* lines 153, 157: seq[i] = v.  Python lists accept item assignment; a tuple
\* raises TypeError
setitem(c, i, v) ==
    IF c.kind = "list"
    THEN [raised |-> "none", kind |-> c.kind, items |-> [c.items EXCEPT ![i] = v]]
    ELSE [raised |-> "TypeError", kind |-> c.kind, items |-> c.items]

(***************************** the script ***********************************)
\* the page before the script's first run: the sliders hold their defaults
Init ==
    /\ ran = FALSE
    /\ H2 = H2_DEFAULT /\ O2 = O2_DEFAULT /\ Temperature = T_DEFAULT
    /\ Voltage = V_DEFAULT /\ Pressure = P_DEFAULT /\ speed = SPEED_DEFAULT
    /\ rate = 0 /\ current_density = 0 /\ power = <<0, 0>>
    /\ anode = <<>> /\ membrane = <<>> /\ cathode = <<>>
    /\ fig = <<>> /\ seed = 0 /\ t_shift = 0 /\ electron_speed = 0
    /\ t_in = <<>> /\ sf_in = 0 /\ ph = <<>> /\ ex = <<>>
    /\ pt = <<>> /\ px = <<>> /\ pz = <<>>
    /\ chart = <<>> /\ exception = "none"

\* One run of the script, lines 20-164, with the slider values h, o, T, v, p, s
\* and the global numpy generator in state g.
Script(h, o, T, v, p, s, g) ==
    /\ ran' = TRUE
    /\ H2' = h /\ O2' = o /\ Temperature' = T
    /\ Voltage' = v /\ Pressure' = p /\ speed' = s
    \* lines 32-35
    /\ rate' = ReactionRate(h, o, T, p)
    /\ current_density' = CurrentDensity(rate', v)
    /\ power' = Power(current_density', v)
    \* lines 49-51
    /\ anode' = AnodeBox
    /\ membrane' = MembraneBox
    /\ cathode' = CathodeBox
    \* lines 53-101
    /\ fig' = FirstFigure(s, g)
    \* lines 137-143
    /\ seed' = Seed(h, o, T, v, p)
    /\ electron_speed' = ElectronSpeed(s, rate')
    /\ t_shift' = TShift(seed')
    /\ t_in' = [n \in Particles |-> (t[n] + t_shift') % PHASE_DEN]
    /\ sf_in' = electron_speed'
    /\ ph' = electron_phase(t_in', sf_in')
    /\ ex' = electron_index(ph')
    \* lines 145-164
    /\ LET fig2 == FigureData(fig')
           nm == names(fig2)
           elec_idx == index(nm, "Electrons")
           prot_idx == index(nm, "Protons (H+)")
           \* line 153
           set1 == setitem(fig2, elec_idx,
                           Scatter3d([wire |-> ex'], "markers", "Electrons", 6, "blue"))
           \* lines 154-156
           px2 == interp(t_in', -4, 4)
           pz2 == interp(t_in', -3, 3)
           \* line 157
           set2 == setitem(set1, prot_idx,
                           Scatter3d([x |-> px2, y |-> [n \in Particles |-> 0],
                                      z |-> pz2],
                                     "markers", "Protons (H+)", 6, "red"))
       IN  IF set1.raised # "none"
           THEN \* the script ends at line 153; the chart keeps the figure of line 112
                /\ exception' = set1.raised
                /\ pt' = t
                /\ px' = interp(t, -4, 4)
                /\ pz' = interp(t, -3, 3)
                /\ chart' = fig'
           ELSE IF set2.raised # "none"
           THEN /\ exception' = set2.raised
                /\ pt' = t_in'
                /\ px' = px2
                /\ pz' = pz2
                /\ chart' = fig'
           ELSE \* lines 159-164: fig3 replaces the chart's figure
                /\ exception' = "none"
                /\ pt' = t_in'
                /\ px' = px2
                /\ pz' = pz2
                /\ chart' = set2.items

\* the page is opened: first run, sliders at their defaults
Load ==
    /\ ~ran
    /\ \E g \in 0..(GlobalStates - 1) :
          Script(H2, O2, Temperature, Voltage, Pressure, speed, g)

\* the user asks for a rerun: same slider values
Rerun ==
    /\ ran
    /\ \E g \in 0..(GlobalStates - 1) :
          Script(H2, O2, Temperature, Voltage, Pressure, speed, g)

\* a slider is moved: Streamlit reruns the script with the new value
SetH2 ==
    /\ ran
    /\ \E h \in H2Values \ {H2}, g \in 0..(GlobalStates - 1) :
          Script(h, O2, Temperature, Voltage, Pressure, speed, g)

SetO2 ==
    /\ ran
    /\ \E o \in O2Values \ {O2}, g \in 0..(GlobalStates - 1) :
          Script(H2, o, Temperature, Voltage, Pressure, speed, g)

SetTemperature ==
    /\ ran
    /\ \E T \in TemperatureValues \ {Temperature}, g \in 0..(GlobalStates - 1) :
          Script(H2, O2, T, Voltage, Pressure, speed, g)

SetVoltage ==
    /\ ran
    /\ \E v \in VoltageValues \ {Voltage}, g \in 0..(GlobalStates - 1) :
          Script(H2, O2, Temperature, v, Pressure, speed, g)

SetPressure ==
    /\ ran
    /\ \E p \in PressureValues \ {Pressure}, g \in 0..(GlobalStates - 1) :
          Script(H2, O2, Temperature, Voltage, p, speed, g)

SetSpeed ==
    /\ ran
    /\ \E s \in SpeedValues \ {speed}, g \in 0..(GlobalStates - 1) :
          Script(H2, O2, Temperature, Voltage, Pressure, s, g)

Next ==
    \/ Load
    \/ Rerun
    \/ SetH2
    \/ SetO2
    \/ SetTemperature
    \/ SetVoltage
    \/ SetPressure
    \/ SetSpeed

Spec == Init /\ [][Next]_vars

(***************************** properties ***********************************)
AtMinimum ==
    /\ H2 = H2_MIN /\ O2 = O2_MIN /\ Temperature = T_MIN
    /\ Voltage = V_MIN /\ Pressure = P_MIN

\* a value n/den rounded to four decimals, in units of 1/10000 (den a multiple
\* of 20000, n >= 0)
Round4(n, den) == (n + den \div 20000) \div (den \div 10000)

\* power rounded to four decimals: hi/100 + lo/(100*LIMB)
Round4Power(pw) == pw[1] * 100 + Round4(pw[2], 100 * LIMB)

MinOf(sq) == CHOOSE m \in {sq[n] : n \in 1..Len(sq)} : \A n \in 1..Len(sq) : m <= sq[n]
MaxOf(sq) == CHOOSE m \in {sq[n] : n \in 1..Len(sq)} : \A n \in 1..Len(sq) : m >= sq[n]
Extent(sq) == <<MinOf(sq), MaxOf(sq)>>

\* C1: on every slider setting the readouts satisfy reactionRate >= 0,
\* currentDensity >= 0.01 and power >= 0; besides the settings the runs reach,
\* each slider is swept over its whole grid with the other four as they are.
C1_ReadoutsInRange ==
    ran =>
        /\ rate >= 0
        /\ current_density >= CD_DEN \div 100
        /\ power[1] >= 0 /\ power[2] >= 0
        /\ \A h \in H2_MIN..H2_MAX :
              ReactionRate(h, O2, Temperature, Pressure) >= 0
        /\ \A o \in O2_MIN..O2_MAX :
              ReactionRate(H2, o, Temperature, Pressure) >= 0
        /\ \A T \in T_MIN..T_MAX :
              ReactionRate(H2, O2, T, Pressure) >= 0
        /\ \A p \in P_MIN..P_MAX :
              ReactionRate(H2, O2, Temperature, p) >= 0
        /\ \A v \in V_MIN..V_MAX :
              /\ CurrentDensity(rate, v) >= CD_DEN \div 100
              /\ Power(CurrentDensity(rate, v), v)[1] >= 0

C1_Witness ==
    /\ ran /\ AtMinimum /\ speed = SPEED_MAX
    /\ rate > 0 /\ current_density > CD_DEN \div 100

\* C4: with the other controls fixed, a larger hydrogen level, oxygen level or
\* pressure never gives a smaller reaction rate (each of the three swept over
\* its whole grid, in pairs a <= b).
C4_RateMonotone ==
    ran =>
        /\ rate = ReactionRate(H2, O2, Temperature, Pressure)
        /\ \A a, b \in H2_MIN..H2_MAX :
              a <= b => ReactionRate(a, O2, Temperature, Pressure)
                          <= ReactionRate(b, O2, Temperature, Pressure)
        /\ \A a, b \in O2_MIN..O2_MAX :
              a <= b => ReactionRate(H2, a, Temperature, Pressure)
                          <= ReactionRate(H2, b, Temperature, Pressure)
        /\ \A a, b \in P_MIN..P_MAX :
              a <= b => ReactionRate(H2, O2, Temperature, a)
                          <= ReactionRate(H2, O2, Temperature, b)

C4_Witness ==
    /\ ran /\ H2 = H2_MAX /\ O2 = O2_MAX /\ Pressure = P_MAX
    /\ rate > ReactionRate(H2_MIN, O2, Temperature, Pressure)
    /\ rate > ReactionRate(H2, O2_MIN, Temperature, Pressure)
    /\ rate > ReactionRate(H2, O2, Temperature, P_MIN)

\* C8 as stated: at the minimum setting the readouts round to
\* reactionRate 0.0492, currentDensity 0.0123, power 0.3075.
C8_Original ==
    (ran /\ AtMinimum) =>
        /\ Round4(rate, RATE_DEN) = 492
        /\ Round4(current_density, CD_DEN) = 123
        /\ Round4Power(power) = 3075

\* C8 amended: at the minimum setting the readouts round to
\* reactionRate 0.0492, currentDensity 0.0123, power 0.3073.
C8_MinimumReadouts ==
    (ran /\ AtMinimum) =>
        /\ Round4(rate, RATE_DEN) = 492
        /\ Round4(current_density, CD_DEN) = 123
        /\ Round4Power(power) = 3073

C8_Witness ==
    /\ ran /\ AtMinimum
    /\ power = <<30, 875000>>

\* n * v as <<hi, lo>> with n * v = hi*LIMB + lo
TimesVoltage(n, v) ==
    <<(n \div LIMB) * v + ((n % LIMB) * v) \div LIMB, ((n % LIMB) * v) % LIMB>>

\* C10: the 0.01 floor never binds: rate*voltage*0.5 > 0.01, currentDensity is
\* rate*voltage*0.5 and power is rate*voltage*voltage*25; besides the settings
\* the runs reach, each slider is swept over its whole grid.
C10_FloorNeverBinds ==
    ran =>
        /\ rate * Voltage > CD_DEN \div 100
        /\ current_density = rate * Voltage
        /\ power = TimesVoltage(rate * Voltage, Voltage)
        /\ \A h \in H2_MIN..H2_MAX :
              CurrentDensity(ReactionRate(h, O2, Temperature, Pressure), Voltage)
                 = ReactionRate(h, O2, Temperature, Pressure) * Voltage
        /\ \A o \in O2_MIN..O2_MAX :
              CurrentDensity(ReactionRate(H2, o, Temperature, Pressure), Voltage)
                 = ReactionRate(H2, o, Temperature, Pressure) * Voltage
        /\ \A T \in T_MIN..T_MAX :
              CurrentDensity(ReactionRate(H2, O2, T, Pressure), Voltage)
                 = ReactionRate(H2, O2, T, Pressure) * Voltage
        /\ \A p \in P_MIN..P_MAX :
              CurrentDensity(ReactionRate(H2, O2, Temperature, p), Voltage)
                 = ReactionRate(H2, O2, Temperature, p) * Voltage
        /\ \A v \in V_MIN..V_MAX :
              CurrentDensity(rate, v) = rate * v

C10_Witness ==
    /\ ran /\ AtMinimum
    /\ current_density = rate * Voltage
    /\ current_density - CD_DEN \div 100 = 137500

(* boxes *)
BoxVertices == 0..7

Corner(b, v) == <<b.x[v + 1], b.y[v + 1], b.z[v + 1]>>

\* the vertices of triangle f
Tri(b, f) == {b.i[f], b.j[f], b.k[f]}

\* the six sides: the vertices sharing an extreme x, y or z
Sides(b) ==
    { {v \in BoxVertices : b.x[v + 1] = MinOf(b.x)},
      {v \in BoxVertices : b.x[v + 1] = MaxOf(b.x)},
      {v \in BoxVertices : b.y[v + 1] = MinOf(b.y)},
      {v \in BoxVertices : b.y[v + 1] = MaxOf(b.y)},
      {v \in BoxVertices : b.z[v + 1] = MinOf(b.z)},
      {v \in BoxVertices : b.z[v + 1] = MaxOf(b.z)} }

\* the triangles with three distinct vertices that lie on side S
TrianglesOn(b, S) ==
    {f \in 1..Len(b.i) : Cardinality(Tri(b, f)) = 3 /\ Tri(b, f) \subseteq S}

\* u and w are opposite corners of a side: they differ in two coordinates
Diagonal(b, u, w) ==
    Cardinality({c \in 1..3 : Corner(b, u)[c] # Corner(b, w)[c]}) = 2

\* two triangles cover a rectangular side exactly when they are its two halves
\* along one diagonal
ExactlyCovered(b, S) ==
    /\ Cardinality(TrianglesOn(b, S)) = 2
    /\ \A f1, f2 \in TrianglesOn(b, S) :
          f1 # f2 =>
             /\ Tri(b, f1) \cup Tri(b, f2) = S
             /\ \A u, w \in Tri(b, f1) \cap Tri(b, f2) :
                   u # w => Diagonal(b, u, w)

BoxMeshClosed(b) ==
    /\ Len(b.x) = 8 /\ Len(b.y) = 8 /\ Len(b.z) = 8
    /\ {Corner(b, v) : v \in BoxVertices}
          = {<<cx, cy, cz>> : cx \in {MinOf(b.x), MaxOf(b.x)},
                              cy \in {MinOf(b.y), MaxOf(b.y)},
                              cz \in {MinOf(b.z), MaxOf(b.z)}}
    /\ Cardinality({Corner(b, v) : v \in BoxVertices}) = 8
    /\ Len(b.i) = 12 /\ Len(b.j) = 12 /\ Len(b.k) = 12
    /\ \A f \in 1..12 :
          /\ Cardinality(Tri(b, f)) = 3
          /\ \E S \in Sides(b) : Tri(b, f) \subseteq S
    /\ Cardinality(Sides(b)) = 6
    /\ \A S \in Sides(b) : ExactlyCovered(b, S)

\* C2: create_box returns the 8 corners and 12 triangles, every triangle with
\* three distinct vertices on one side, every one of the 6 sides exactly
\* covered by two triangles.
C2_BoxMeshCoversAllSides ==
    ran => BoxMeshClosed(anode) /\ BoxMeshClosed(membrane) /\ BoxMeshClosed(cathode)

\* C7 as stated: anode x in [-2.0,-0.5], membrane x in [-0.4,0.4], cathode x in
\* [0.5,2.0], all three with y in [-0.8,0.8] and z in [-0.5,0.5].
C7_Original ==
    ran =>
        /\ Extent(anode.x) = <<-20, -5>>
        /\ Extent(membrane.x) = <<-4, 4>>
        /\ Extent(cathode.x) = <<5, 20>>
        /\ \A b \in {anode, membrane, cathode} :
              Extent(b.y) = <<-8, 8>> /\ Extent(b.z) = <<-5, 5>>

\* C7 amended: the x extents are as stated and all three boxes have z in
\* [-0.5,0.5]; anode and cathode have y in [-0.8,0.8], the membrane has y in
\* [-0.9,0.9]; none of it depends on the controls.
C7_BoxExtents ==
    ran =>
        /\ Extent(anode.x) = <<-20, -5>>
        /\ Extent(membrane.x) = <<-4, 4>>
        /\ Extent(cathode.x) = <<5, 20>>
        /\ Extent(anode.y) = <<-8, 8>>
        /\ Extent(cathode.y) = <<-8, 8>>
        /\ Extent(membrane.y) = <<-9, 9>>
        /\ \A b \in {anode, membrane, cathode} : Extent(b.z) = <<-5, 5>>
        /\ fig[1].data = anode /\ fig[2].data = membrane /\ fig[3].data = cathode

C7_Witness ==
    /\ ran
    /\ H2 = H2_MAX /\ Temperature = T_MIN /\ Voltage = V_MAX /\ speed = SPEED_MIN
    /\ Extent(membrane.y) = <<-9, 9>>

(* particles *)
\* C5: for every particle the phase fed to the channel interpolation is the
\* wrapped phase that gives that electron's wire index.
C5_ProtonsUseElectronPhases ==
    ran => \A n \in Particles : pt[n] * ES_DEN = ph[n]

\* the trace of figure f that list.index finds under a name
TraceNamed(f, name) == f[index([n \in 1..Len(f) |-> f[n].name], name)]

\* the wire indices of the Electrons trace of the first figure (line 89)
FirstElectrons == TraceNamed(fig, "Electrons").data.wire

\* C6: every electron phase is the product phase * speed factor with its
\* integer part removed, so it lies in [0,1) (a product reaching 1.0 gives 0.0),
\* and the wire index is floor(wrappedPhase * 39), within 0..38; for the
\* electrons of the first figure (phases t, factor speed) and for those of the
\* update (phases (t + t_shift) % 1.0, factor electron_speed).
C6_PhaseWrapsAndIndexInRange ==
    ran =>
        \A n \in Particles :
            LET x == t_in[n]
                q == sf_in \div ES_DEN
                r == sf_in % ES_DEN
                \* x * sf_in = hi * ES_DEN + lo
                hi == x * q + (x * r) \div ES_DEN
                lo == (x * r) % ES_DEN
                whole == hi \div PHASE_DEN
                a == ph[n] \div ES_DEN
                b == ph[n] % ES_DEN
                \* first figure: t[n] * speed with its integer part removed
                w0 == t[n] * speed - PHASE_DEN * ((t[n] * speed) \div PHASE_DEN)
            IN  /\ x \in 0..(PHASE_DEN - 1)
                /\ x = (t[n] + t_shift) % PHASE_DEN
                /\ sf_in = electron_speed /\ sf_in >= ES_DEN
                /\ ph[n] \in 0..(PH_DEN - 1)
                /\ ph[n] = (hi - whole * PHASE_DEN) * ES_DEN + lo
                /\ ex[n] \in 0..38
                /\ ex[n] * PHASE_DEN <= 39 * a + (39 * b) \div ES_DEN
                /\ 39 * a + (39 * b) \div ES_DEN < (ex[n] + 1) * PHASE_DEN
                /\ w0 \in 0..(PHASE_DEN - 1)
                /\ FirstElectrons[n] \in 0..38
                /\ FirstElectrons[n] * PHASE_DEN <= 39 * w0
                /\ 39 * w0 < (FirstElectrons[n] + 1) * PHASE_DEN

\* a run in which a product of the first figure lands exactly on a whole
\* number >= 1 and wraps to 0.0 (index 0), a product of the update exceeds 1.0
\* and is wrapped, and an electron sits on the last index reached, 38
C6_Witness ==
    /\ ran
    /\ t_shift > 0
    /\ \E n \in Particles :
          /\ t[n] * speed >= PHASE_DEN
          /\ (t[n] * speed) % PHASE_DEN = 0
          /\ FirstElectrons[n] = 0
    /\ \E n \in Particles :
          /\ (t_in[n] * (sf_in \div ES_DEN)
                + (t_in[n] * (sf_in % ES_DEN)) \div ES_DEN) >= PHASE_DEN
          /\ ph[n] < t_in[n] * ES_DEN
    /\ \E n \in Particles : ex[n] = 38

(* traces *)
\* C9: the update replaces exactly the traces named 'Electrons' and
\* 'Protons (H+)'; the final figure has the first figure's traces in the same
\* order, with meshes, labels, wire and oxygen unchanged.
C9_UpdateReplacesTwoTraces ==
    ran =>
        LET nm == [n \in 1..Len(fig) |-> fig[n].name]
            e == index(nm, "Electrons")
            p == index(nm, "Protons (H+)")
        IN  /\ exception = "none"
            /\ Len(chart) = Len(fig)
            /\ \A n \in 1..Len(fig) : chart[n].name = fig[n].name
            /\ \A n \in 1..Len(fig) : n \notin {e, p} => chart[n] = fig[n]
            /\ chart[e] = Scatter3d([wire |-> ex], "markers", "Electrons", 6, "blue")
            /\ chart[p] = Scatter3d([x |-> px, y |-> [n \in Particles |-> 0], z |-> pz],
                                    "markers", "Protons (H+)", 6, "red")

\* the coordinates on display
ElectronCoords == TraceNamed(chart, "Electrons").data
ProtonCoords == TraceNamed(chart, "Protons (H+)").data
OxygenCoords == TraceNamed(chart, "Oxygen (O2)").data

\* C3: two runs with identical control values show identical electron, proton
\* and oxygen coordinates.
C3_SameControlsSameCoordinates ==
    [][(ran /\ ran' /\ controls' = controls) =>
          /\ ElectronCoords' = ElectronCoords
          /\ ex' = ex
          /\ ProtonCoords' = ProtonCoords
          /\ OxygenCoords' = OxygenCoords]_vars

====
